---- MODULE Spec2Model ----
(***************************************************************************)
(* cc-switch: the profile-state subsystem.                                 *)
(*                                                                         *)
(* The filesystem the tool works on is one record, fs: the live settings   *)
(* document (~/.claude/settings.json), the state file                      *)
(* (~/.cc-switch/state.json), their ".tmp" siblings and one slot per       *)
(* profile directory (~/.cc-switch/profiles/<name>/).  One invocation of   *)
(* the tool runs at a time (proc); it advances from one filesystem write   *)
(* to the next, each step being one write and the reads and tests that     *)
(* follow it, and may be terminated between any two writes or in the       *)
(* middle of a writeFile.                                                  *)
(*                                                                         *)
(* src/src/profiles.ts holds two definitions of the module: lines 1-199    *)
(* (no templates, mirrorSettings updates the state record) and lines       *)
(* 201-553 (templates, createProfile updates the state record).  The       *)
(* variable rev says which of the two an execution runs; it never changes. *)
(***************************************************************************)
EXTENDS Integers, Sequences, FiniteSets, TLC

VARIABLES rev, fs, proc, hist, events

vars == <<rev, fs, proc, hist, events>>

(***************************************************************************)
(* Bound of the model: the calls, terminations and outside edits of one    *)
(* execution.  events is also the clock new Date() reads.                  *)
(***************************************************************************)
MaxEvents == 3

(***************************************************************************)
(* Strings are sequences of one-character strings.                         *)
(***************************************************************************)
Lower == {"a","b","c","d","e","f","g","h","i","j","k","l","m",
          "n","o","p","q","r","s","t","u","v","w","x","y","z"}
Upper == {"A","B","C","D","E","F","G","H","I","J","K","L","M",
          "N","O","P","Q","R","S","T","U","V","W","X","Y","Z"}
Digit == {"0","1","2","3","4","5","6","7","8","9"}
White == {" ", "\t", "\n"}

LowerOf(c) ==
  CASE c = "A" -> "a" [] c = "B" -> "b" [] c = "C" -> "c" [] c = "D" -> "d"
    [] c = "E" -> "e" [] c = "F" -> "f" [] c = "G" -> "g" [] c = "H" -> "h"
    [] c = "I" -> "i" [] c = "J" -> "j" [] c = "K" -> "k" [] c = "L" -> "l"
    [] c = "M" -> "m" [] c = "N" -> "n" [] c = "O" -> "o" [] c = "P" -> "p"
    [] c = "Q" -> "q" [] c = "R" -> "r" [] c = "S" -> "s" [] c = "T" -> "t"
    [] c = "U" -> "u" [] c = "V" -> "v" [] c = "W" -> "w" [] c = "X" -> "x"
    [] c = "Y" -> "y" [] c = "Z" -> "z" [] OTHER -> c

toLowerCase(s) == [i \in 1..Len(s) |-> LowerOf(s[i])]

RECURSIVE trimStart(_)
trimStart(s) == IF s # <<>> /\ Head(s) \in White THEN trimStart(Tail(s)) ELSE s

RECURSIVE trimEnd(_)
trimEnd(s) ==
  IF s # <<>> /\ s[Len(s)] \in White THEN trimEnd(SubSeq(s, 1, Len(s) - 1)) ELSE s

trim(s) == trimEnd(trimStart(s))

includes(s, t) ==
  \E i \in 1..(Len(s) + 1 - Len(t)) : SubSeq(s, i, i + Len(t) - 1) = t

\* String.prototype.localeCompare on names of safe characters, by the root
\* collation: strings differ first by their letters regardless of case, with
\* "_" before "-" before the digits before the letters, and a prefix before
\* its extensions; strings equal up to case differ by the first letter whose
\* case differs, lower case first.
Collation ==
  <<"_", "-", "0", "1", "2", "3", "4", "5", "6", "7", "8", "9",
    "a", "b", "c", "d", "e", "f", "g", "h", "i", "j", "k", "l", "m",
    "n", "o", "p", "q", "r", "s", "t", "u", "v", "w", "x", "y", "z">>

PrimaryWeight(c) == CHOOSE i \in 1..Len(Collation) : Collation[i] = LowerOf(c)

CaseWeight(c) == IF c \in Upper THEN 1 ELSE 0

\* Lexicographic comparison of two weight sequences: -1, 0 or 1.
RECURSIVE CompareSeq(_, _)
CompareSeq(a, b) ==
  IF a = <<>> /\ b = <<>> THEN 0
  ELSE IF a = <<>> THEN -1
  ELSE IF b = <<>> THEN 1
  ELSE IF Head(a) < Head(b) THEN -1
  ELSE IF Head(a) > Head(b) THEN 1
  ELSE CompareSeq(Tail(a), Tail(b))

localeCompare(a, b) ==
  LET primary == CompareSeq([i \in 1..Len(a) |-> PrimaryWeight(a[i])],
                            [i \in 1..Len(b) |-> PrimaryWeight(b[i])])
  IN IF primary # 0 THEN primary
     ELSE CompareSeq([i \in 1..Len(a) |-> CaseWeight(a[i])],
                     [i \in 1..Len(b) |-> CaseWeight(b[i])])

(***************************************************************************)
(* validation.ts                                                           *)
(***************************************************************************)
RESERVED_PROFILE_NAMES == { <<"h","e","l","p">>, <<"v","e","r","s","i","o","n">> }

SafeChar == Lower \cup Upper \cup Digit \cup {"-", "_"}

\* Mutant: neither the traversal test nor the character test is made.
validateProfileName_noPathTests(name) ==
  LET trimmedName == trim(name) IN
  IF trimmedName = <<>> THEN [valid |-> FALSE, error |-> "empty"]
  ELSE IF name # trimmedName THEN [valid |-> FALSE, error |-> "spaces"]
  ELSE IF toLowerCase(trimmedName) \in RESERVED_PROFILE_NAMES
    THEN [valid |-> FALSE, error |-> "reserved"]
  ELSE [valid |-> TRUE, error |-> "none"]

\* Mutant: the character test is made before the traversal test.
validateProfileName_charsetFirst(name) ==
  LET trimmedName == trim(name) IN
  IF trimmedName = <<>> THEN [valid |-> FALSE, error |-> "empty"]
  ELSE IF name # trimmedName THEN [valid |-> FALSE, error |-> "spaces"]
  ELSE IF toLowerCase(trimmedName) \in RESERVED_PROFILE_NAMES
    THEN [valid |-> FALSE, error |-> "reserved"]
  ELSE IF ~(\A i \in 1..Len(trimmedName) : trimmedName[i] \in SafeChar)
    THEN [valid |-> FALSE, error |-> "charset"]
  ELSE IF \/ includes(trimmedName, <<".", ".">>)
          \/ includes(trimmedName, <<"/">>)
          \/ includes(trimmedName, <<"\\">>)
    THEN [valid |-> FALSE, error |-> "traversal"]
  ELSE [valid |-> TRUE, error |-> "none"]

\* Mutant: the reserved words are compared without lower-casing the name.
validateProfileName_caseSensitive(name) ==
  LET trimmedName == trim(name) IN
  IF trimmedName = <<>> THEN [valid |-> FALSE, error |-> "empty"]
  ELSE IF name # trimmedName THEN [valid |-> FALSE, error |-> "spaces"]
  ELSE IF trimmedName \in RESERVED_PROFILE_NAMES
    THEN [valid |-> FALSE, error |-> "reserved"]
  ELSE IF \/ includes(trimmedName, <<".", ".">>)
          \/ includes(trimmedName, <<"/">>)
          \/ includes(trimmedName, <<"\\">>)
    THEN [valid |-> FALSE, error |-> "traversal"]
  ELSE IF ~(\A i \in 1..Len(trimmedName) : trimmedName[i] \in SafeChar)
    THEN [valid |-> FALSE, error |-> "charset"]
  ELSE [valid |-> TRUE, error |-> "none"]

validateProfileName(name) ==
  LET trimmedName == trim(name) IN
  IF trimmedName = <<>> THEN [valid |-> FALSE, error |-> "empty"]
  ELSE IF name # trimmedName THEN [valid |-> FALSE, error |-> "spaces"]
  ELSE IF toLowerCase(trimmedName) \in RESERVED_PROFILE_NAMES
    THEN [valid |-> FALSE, error |-> "reserved"]
  ELSE IF \/ includes(trimmedName, <<".", ".">>)
          \/ includes(trimmedName, <<"/">>)
          \/ includes(trimmedName, <<"\\">>)
    THEN [valid |-> FALSE, error |-> "traversal"]
  ELSE IF ~(\A i \in 1..Len(trimmedName) : trimmedName[i] \in SafeChar)
    THEN [valid |-> FALSE, error |-> "charset"]
  ELSE [valid |-> TRUE, error |-> "none"]

(***************************************************************************)
(* The names the model calls the operations with, and the profile          *)
(* directories they can name.                                              *)
(***************************************************************************)
DEFAULT_NAME == <<"d","e","f","a","u","l","t">>
NameW == <<"w">>
NameBad == <<"a","/","b">>

NameInputs == {DEFAULT_NAME, NameW, NameBad}

Dirs == {n \in NameInputs : validateProfileName(n).valid}

(***************************************************************************)
(* File contents.  A settings document is a JSON object (its "env" object  *)
(* and the rest of it, which no operation reads) in the formatting it was  *)
(* written with, or text JSON.parse rejects.  A file that a writeFile was  *)
(* terminated in holds a prefix of the payload (Partial).                  *)
(***************************************************************************)
NoFile == [kind |-> "none"]
Partial == [kind |-> "partial"]

EnvVars == {"ANTHROPIC_API_KEY", "ANTHROPIC_BASE_URL", "ANTHROPIC_AUTH_TOKEN",
            "ANTHROPIC_DEFAULT_HAIKU_MODEL", "ANTHROPIC_DEFAULT_SONNET_MODEL",
            "ANTHROPIC_DEFAULT_OPUS_MODEL"}

\* An env variable that is not set maps to the empty sequence.
NoEnv == [v \in EnvVars |-> <<>>]

JsonDoc(pretty, rest, hasEnv, env) ==
  [kind |-> "json", pretty |-> pretty, rest |-> rest, hasEnv |-> hasEnv, env |-> env]

\* The documents a user (or the host application) leaves in the live file.
BlobA == JsonDoc(FALSE, "a", TRUE, [NoEnv EXCEPT !["ANTHROPIC_API_KEY"] = <<"s","k">>])
BlobB == JsonDoc(TRUE, "b", FALSE, NoEnv)
BlobText == [kind |-> "text"]

BaseBlobs == {BlobA, BlobB, BlobText}

(***************************************************************************)
(* profiles.ts (lines 201-553): provider templates                         *)
(***************************************************************************)
PROVIDER_TEMPLATES ==
  { [name |-> "anthropic", requiresApiKey |-> FALSE, baseUrl |-> <<>>,
     haikuModel |-> <<>>, sonnetModel |-> <<>>, opusModel |-> <<>>],
    [name |-> "moonshot", requiresApiKey |-> TRUE,
     baseUrl |-> <<"https://api.kimi.com/coding/">>,
     haikuModel |-> <<"kimi-for-coding">>, sonnetModel |-> <<"kimi-for-coding">>,
     opusModel |-> <<"kimi-for-coding">>],
    [name |-> "zai", requiresApiKey |-> TRUE,
     baseUrl |-> <<"https://api.z.ai/api/anthropic">>,
     haikuModel |-> <<"glm-4.5-air">>, sonnetModel |-> <<"glm-4.7">>,
     opusModel |-> <<"glm-4.7">>],
    [name |-> "minimax", requiresApiKey |-> TRUE,
     baseUrl |-> <<"https://api.minimax.io/anthropic">>,
     haikuModel |-> <<"MiniMax-M2.1">>, sonnetModel |-> <<"MiniMax-M2.1">>,
     opusModel |-> <<"MiniMax-M2.1">>] }

NoTemplate == [name |-> "", requiresApiKey |-> FALSE, baseUrl |-> <<>>,
               haikuModel |-> <<>>, sonnetModel |-> <<>>, opusModel |-> <<>>]

\* PROVIDER_TEMPLATES.find(...): NoTemplate stands for undefined.
getTemplateConfig(name) ==
  IF \E t \in PROVIDER_TEMPLATES : t.name = name
    THEN CHOOSE t \in PROVIDER_TEMPLATES : t.name = name
    ELSE NoTemplate

\* The options createProfile is called with.  "" and <<>> stand for an absent
\* (or empty, equally falsy) template and apiKey.
CreateOptions ==
  { [template |-> "", apiKey |-> <<>>],
    [template |-> "", apiKey |-> <<"k">>],
    [template |-> "anthropic", apiKey |-> <<>>],
    [template |-> "zai", apiKey |-> <<" ", "k", " ">>],
    [template |-> "zai", apiKey |-> <<" ">>],
    [template |-> "bogus", apiKey |-> <<>>] }

SetIf(env, var, val) == IF val # <<>> THEN [env EXCEPT ![var] = val] ELSE env

\* JSON.parse of the content throws on anything but a JSON document.
CanParse(content) == content.kind = "json"

applyTemplateOverrides(settingsContent, template, apiKey) ==
  LET e0 == IF settingsContent.hasEnv THEN settingsContent.env ELSE NoEnv
      e1 == [e0 EXCEPT !["ANTHROPIC_API_KEY"] = <<>>]
      e2 == SetIf(e1, "ANTHROPIC_BASE_URL", template.baseUrl)
      e3 == SetIf(e2, "ANTHROPIC_AUTH_TOKEN", apiKey)
      e4 == SetIf(e3, "ANTHROPIC_DEFAULT_HAIKU_MODEL", template.haikuModel)
      e5 == SetIf(e4, "ANTHROPIC_DEFAULT_SONNET_MODEL", template.sonnetModel)
      e6 == SetIf(e5, "ANTHROPIC_DEFAULT_OPUS_MODEL", template.opusModel)
  IN JsonDoc(TRUE, settingsContent.rest, TRUE, e6)

(***************************************************************************)
(* The filesystem.                                                         *)
(***************************************************************************)
EmptySlot == [dir |-> FALSE, settings |-> NoFile, tmp |-> NoFile]

\* profiles[n] is what is at getProfileDir(n), for every name a call may pass.
EmptyFs ==
  [live |-> NoFile, liveTmp |-> NoFile, state |-> NoFile, stateTmp |-> NoFile,
   root |-> FALSE, profiles |-> [n \in NameInputs |-> EmptySlot]]

\* mkdir(PROFILES_DIR, { recursive: true })
mkdirRoot(f) == [f EXCEPT !.root = TRUE]

\* mkdir(dirname(getProfileSettings(name)), { recursive: true })
mkdirProfile(f, name) == [f EXCEPT !.root = TRUE, !.profiles[name].dir = TRUE]

\* writeFile(`${getProfileSettings(name)}.tmp`, content)
writeProfileTmp(f, name, content) == [f EXCEPT !.profiles[name].tmp = content]

\* fsRename(tempFile, getProfileSettings(name))
renameProfileTmp(f, name) ==
  [f EXCEPT !.profiles[name].settings = f.profiles[name].tmp,
            !.profiles[name].tmp = NoFile]

\* Mutant: the live document is written in place.
writeLive_inPlace(f, content) == [f EXCEPT !.live = content, !.liveTmp = content]

\* writeFile(`${CLAUDE_SETTINGS}.tmp`, content)
writeLiveTmp(f, content) == [f EXCEPT !.liveTmp = content]

\* fsRename(`${CLAUDE_SETTINGS}.tmp`, CLAUDE_SETTINGS)
renameLiveTmp(f) == [f EXCEPT !.live = f.liveTmp, !.liveTmp = NoFile]

\* rm(getProfileDir(name), { recursive: true, force: true })
rmProfile(f, name) == [f EXCEPT !.profiles[name] = EmptySlot]

\* fsRename(getProfileDir(oldName), getProfileDir(newName))
renameProfileDir(f, oldName, newName) ==
  [f EXCEPT !.profiles[newName] = f.profiles[oldName], !.profiles[oldName] = EmptySlot]

\* access(CLAUDE_SETTINGS) succeeds
checkClaudeSettings(f) == f.live # NoFile

\* access(getProfileDir(name)) succeeds
profileExists(f, name) == name \in DOMAIN f.profiles /\ f.profiles[name].dir

(***************************************************************************)
(* state.ts                                                                *)
(***************************************************************************)
StateRecord(activeProfile, lastSyncedAt) ==
  [kind |-> "state", activeProfile |-> activeProfile, lastSyncedAt |-> lastSyncedAt]

\* Mutant: the default record names another profile.
DEFAULT_STATE_other(now) == StateRecord(NameW, now)

\* DEFAULT_STATE is built when the module is loaded, at the start of the call.
DEFAULT_STATE(now) == StateRecord(DEFAULT_NAME, now)

\* readState throws when the file is there and JSON.parse rejects it.
readStateThrows(f) == f.state.kind \notin {"none", "state"}

readState(f, now) == IF f.state.kind = "none" THEN DEFAULT_STATE(now) ELSE f.state

\* updateState: the record it writes and returns.
newState(f, activeProfile, now) ==
  [readState(f, now) EXCEPT !.activeProfile = activeProfile, !.lastSyncedAt = now]

\* writeState, first write: writeFile(`${STATE_FILE}.tmp`, ...)
writeStateTmp(f, st) == [f EXCEPT !.stateTmp = st]

\* Mutant: the record reaches the temporary file only.
writeStateFile_tmpOnly(f, st) == f

\* writeState, second write: writeFile(STATE_FILE, ...), in place.
writeStateFile(f, st) == [f EXCEPT !.state = st]

(***************************************************************************)
(* The running call.  pre is the filesystem the call started on, active    *)
(* the activeProfile it read, settings the content it is about to write,   *)
(* activate the name its updateState installs.                             *)
(***************************************************************************)
Idle ==
  [op |-> "none", pc |-> "idle", name |-> <<>>, newName |-> <<>>, template |-> "",
   apiKey |-> <<>>, active |-> <<>>, settings |-> NoFile, activate |-> <<>>,
   result |-> <<>>, pre |-> EmptyFs]

\* A step's result: the call goes on at pc, or has returned with an outcome.
Go(f, p, pc) ==
  [fs |-> f, proc |-> [p EXCEPT !.pc = pc], outcome |-> "run", reason |-> "none"]

Ret(f, p, outcome, reason) ==
  [fs |-> f, proc |-> p, outcome |-> outcome, reason |-> reason]

\* updateState starts with readState, which throws on an unparseable file.
StartUpdate(f, p) ==
  IF readStateThrows(f) THEN Ret(f, p, "parse_state", "none") ELSE Go(f, p, "state_tmp")

\* createProfile (lines 447-459): the template named by the options.
TemplateOf(p) == IF p.template # "" THEN getTemplateConfig(p.template) ELSE NoTemplate

HasTemplate(p) == TemplateOf(p) # NoTemplate

(***************************************************************************)
(* profiles.ts: switchProfile up to its first write (74-94, 389-409)       *)
(***************************************************************************)
\* Mutant: the active profile's directory is made before the target is
\* tested for existence.
switchBegin_mkdirFirst(f, targetProfile, now) ==
  LET p == [Idle EXCEPT !.op = "switch", !.name = targetProfile, !.pre = f,
                        !.activate = targetProfile]
      validation == validateProfileName(targetProfile)
  IN IF ~validation.valid THEN Ret(f, p, "invalid", validation.error)
     ELSE IF ~checkClaudeSettings(f) THEN Ret(f, p, "no_live", "none")
     ELSE IF readStateThrows(f) THEN Ret(f, p, "parse_state", "none")
     ELSE IF ~profileExists(f, targetProfile)
       THEN Ret(mkdirProfile(f, readState(f, now).activeProfile), p, "not_found", "none")
     ELSE Go(f, [p EXCEPT !.active = readState(f, now).activeProfile], "mirror_mkdir")

switchBegin(f, targetProfile, now) ==
  LET p == [Idle EXCEPT !.op = "switch", !.name = targetProfile, !.pre = f,
                        !.activate = targetProfile]
      validation == validateProfileName(targetProfile)
  IN IF ~validation.valid THEN Ret(f, p, "invalid", validation.error)
     ELSE IF ~checkClaudeSettings(f) THEN Ret(f, p, "no_live", "none")
     ELSE IF ~profileExists(f, targetProfile) THEN Ret(f, p, "not_found", "none")
     ELSE IF readStateThrows(f) THEN Ret(f, p, "parse_state", "none")
     ELSE Go(f, [p EXCEPT !.active = readState(f, now).activeProfile], "mirror_mkdir")

\* Mutant: the content to install is read from the active profile's slot.
switchAfterMirror_readsActive(f, p) ==
  IF p.name = p.active THEN Ret(f, p, "already_active", "none")
  ELSE IF f.profiles[p.name].settings = NoFile THEN Ret(f, p, "enoent", "none")
  ELSE Go(f, [p EXCEPT !.settings = f.profiles[p.active].settings], "replace_tmp")

\* switchProfile after the mirror (96-103, 411-418)
switchAfterMirror(f, p) ==
  IF p.name = p.active THEN Ret(f, p, "already_active", "none")
  ELSE IF f.profiles[p.name].settings = NoFile THEN Ret(f, p, "enoent", "none")
  ELSE Go(f, [p EXCEPT !.settings = f.profiles[p.name].settings], "replace_tmp")

(***************************************************************************)
(* profiles.ts: createProfile up to its first write (114-127, 429-459)     *)
(***************************************************************************)
\* Mutant: the test for an existing profile is missing.
createBegin_noExistsTest(f, profileName, template, apiKey, r) ==
  LET p == [Idle EXCEPT !.op = "create", !.name = profileName, !.pre = f,
                        !.template = template, !.apiKey = apiKey,
                        !.activate = profileName]
      validation == validateProfileName(profileName)
      templateConfig == TemplateOf(p)
  IN IF ~validation.valid THEN Ret(f, p, "invalid", validation.error)
     ELSE IF ~checkClaudeSettings(f) THEN Ret(f, p, "no_live", "none")
     ELSE IF r = 2 /\ template # "" /\ templateConfig = NoTemplate
       THEN Ret(f, p, "unknown_template", "none")
     ELSE IF r = 2 /\ templateConfig.requiresApiKey /\ trim(apiKey) = <<>>
       THEN Ret(f, p, "key_required", "none")
     ELSE IF r = 2 /\ templateConfig = NoTemplate /\ apiKey # <<>>
       THEN Ret(f, p, "key_without_template", "none")
     ELSE Go(f, p, "create_mkdir")

\* Mutant: an apiKey given without a template is ignored.
createBegin_ignoresStrayKey(f, profileName, template, apiKey, r) ==
  LET p == [Idle EXCEPT !.op = "create", !.name = profileName, !.pre = f,
                        !.template = template, !.apiKey = apiKey,
                        !.activate = profileName]
      validation == validateProfileName(profileName)
      templateConfig == TemplateOf(p)
  IN IF ~validation.valid THEN Ret(f, p, "invalid", validation.error)
     ELSE IF ~checkClaudeSettings(f) THEN Ret(f, p, "no_live", "none")
     ELSE IF profileExists(f, profileName) THEN Ret(f, p, "exists", "none")
     ELSE IF r = 2 /\ template # "" /\ templateConfig = NoTemplate
       THEN Ret(f, p, "unknown_template", "none")
     ELSE IF r = 2 /\ templateConfig.requiresApiKey /\ trim(apiKey) = <<>>
       THEN Ret(f, p, "key_required", "none")
     ELSE Go(f, p, "create_mkdir")

\* Mutant: the name is not validated.
createBegin_noValidation(f, profileName, template, apiKey, r) ==
  LET p == [Idle EXCEPT !.op = "create", !.name = profileName, !.pre = f,
                        !.template = template, !.apiKey = apiKey,
                        !.activate = profileName]
      templateConfig == TemplateOf(p)
  IN IF ~checkClaudeSettings(f) THEN Ret(f, p, "no_live", "none")
     ELSE IF profileExists(f, profileName) THEN Ret(f, p, "exists", "none")
     ELSE IF r = 2 /\ template # "" /\ templateConfig = NoTemplate
       THEN Ret(f, p, "unknown_template", "none")
     ELSE IF r = 2 /\ templateConfig.requiresApiKey /\ trim(apiKey) = <<>>
       THEN Ret(f, p, "key_required", "none")
     ELSE IF r = 2 /\ templateConfig = NoTemplate /\ apiKey # <<>>
       THEN Ret(f, p, "key_without_template", "none")
     ELSE Go(f, p, "create_mkdir")

createBegin(f, profileName, template, apiKey, r) ==
  LET p == [Idle EXCEPT !.op = "create", !.name = profileName, !.pre = f,
                        !.template = template, !.apiKey = apiKey,
                        !.activate = profileName]
      validation == validateProfileName(profileName)
      templateConfig == TemplateOf(p)
  IN IF ~validation.valid THEN Ret(f, p, "invalid", validation.error)
     ELSE IF ~checkClaudeSettings(f) THEN Ret(f, p, "no_live", "none")
     ELSE IF profileExists(f, profileName) THEN Ret(f, p, "exists", "none")
     ELSE IF r = 2 /\ template # "" /\ templateConfig = NoTemplate
       THEN Ret(f, p, "unknown_template", "none")
     ELSE IF r = 2 /\ templateConfig.requiresApiKey /\ trim(apiKey) = <<>>
       THEN Ret(f, p, "key_required", "none")
     ELSE IF r = 2 /\ templateConfig = NoTemplate /\ apiKey # <<>>
       THEN Ret(f, p, "key_without_template", "none")
     ELSE Go(f, p, "create_mkdir")

\* Mutant: the settings to store are parsed and serialised again.
createMkdir_reserialises(f, p, now) ==
  LET g == mkdirProfile(f, p.name)
      q == [p EXCEPT !.settings = IF CanParse(f.live)
                                    THEN applyTemplateOverrides(f.live, NoTemplate, <<>>)
                                    ELSE f.live]
  IN IF ~HasTemplate(p) THEN Go(g, q, "create_tmp")
     ELSE IF readStateThrows(g) THEN Ret(g, q, "parse_state", "none")
     ELSE Go(g, [q EXCEPT !.active = readState(g, now).activeProfile], "mirror_mkdir")

\* createProfile: mkdir, then the reads before the next write (131-133, 463-471)
createMkdir(f, p, now) ==
  LET g == mkdirProfile(f, p.name)
      q == [p EXCEPT !.settings = f.live]
  IN IF ~HasTemplate(p) THEN Go(g, q, "create_tmp")
     ELSE IF readStateThrows(g) THEN Ret(g, q, "parse_state", "none")
     ELSE Go(g, [q EXCEPT !.active = readState(g, now).activeProfile], "mirror_mkdir")

\* createProfile after the mirror (477)
createAfterMirror(f, p) ==
  IF ~CanParse(p.settings) THEN Ret(f, p, "parse_settings", "none")
  ELSE Go(f, [p EXCEPT !.settings =
                applyTemplateOverrides(p.settings, TemplateOf(p), trim(p.apiKey))],
          "create_tmp")

\* createProfile once the new profile's file is in place (485-492; 139 returns)
createAfterRename(f, p, r) ==
  IF HasTemplate(p) THEN Go(f, p, "replace_tmp")
  ELSE IF r = 2 THEN StartUpdate(f, p)
  ELSE Ret(f, p, "ok", "none")

(***************************************************************************)
(* profiles.ts: mirrorSettings (59-72, 377-387)                            *)
(***************************************************************************)
AfterMirror(f, p) ==
  IF p.op = "switch" THEN switchAfterMirror(f, p) ELSE createAfterMirror(f, p)

\* what follows the rename of the mirrored file: lines 70-71 update the state
\* record; lines 377-387 return.
mirrorAfterRename(f, p, r) ==
  IF r = 1
    THEN IF readStateThrows(f) THEN Ret(f, p, "parse_state", "none")
         ELSE Go(f, p, "mirror_state_tmp")
    ELSE AfterMirror(f, p)

mirrorSettings(f, p, r, now) ==
  CASE p.pc = "mirror_mkdir" -> Go(mkdirProfile(f, p.active), p, "mirror_tmp")
    [] p.pc = "mirror_tmp" -> Go(writeProfileTmp(f, p.active, f.live), p, "mirror_rename")
    [] p.pc = "mirror_rename" -> mirrorAfterRename(renameProfileTmp(f, p.active), p, r)
    [] p.pc = "mirror_state_tmp" ->
         Go(writeStateTmp(f, newState(f, p.active, now)), p, "mirror_state")
    [] p.pc = "mirror_state" ->
         AfterMirror(writeStateFile(f, newState(f, p.active, now)), p)

MirrorPcs == {"mirror_mkdir", "mirror_tmp", "mirror_rename", "mirror_state_tmp",
              "mirror_state"}

(***************************************************************************)
(* The writes shared by switchProfile and createProfile: the live document *)
(* (105-108, 420-423, 486-488) and updateState (state.ts 23-41).           *)
(***************************************************************************)
replaceLive(f, p) ==
  CASE p.pc = "replace_tmp" -> Go(writeLiveTmp(f, p.settings), p, "replace_rename")
    [] p.pc = "replace_rename" -> StartUpdate(renameLiveTmp(f), p)

updateState(f, p, now) ==
  CASE p.pc = "state_tmp" ->
         Go(writeStateTmp(f, newState(f, p.activate, now)), p, "state_write")
    [] p.pc = "state_write" ->
         Ret(writeStateFile(f, newState(f, p.activate, now)), p, "ok", "none")

(***************************************************************************)
(* profiles.ts: deleteProfile (141-161, 495-515)                           *)
(***************************************************************************)
\* Mutant: the active profile is not protected.
deleteBegin_noGuard(f, profileName, now) ==
  LET p == [Idle EXCEPT !.op = "delete", !.name = profileName, !.pre = f]
      validation == validateProfileName(profileName)
  IN IF ~validation.valid THEN Ret(f, p, "invalid", validation.error)
     ELSE IF ~profileExists(f, profileName) THEN Ret(f, p, "not_found", "none")
     ELSE IF readStateThrows(f) THEN Ret(f, p, "parse_state", "none")
     ELSE Go(f, [p EXCEPT !.active = readState(f, now).activeProfile], "delete_rm")

deleteBegin(f, profileName, now) ==
  LET p == [Idle EXCEPT !.op = "delete", !.name = profileName, !.pre = f]
      validation == validateProfileName(profileName)
  IN IF ~validation.valid THEN Ret(f, p, "invalid", validation.error)
     ELSE IF ~profileExists(f, profileName) THEN Ret(f, p, "not_found", "none")
     ELSE IF readStateThrows(f) THEN Ret(f, p, "parse_state", "none")
     ELSE IF profileName = readState(f, now).activeProfile
       THEN Ret(f, [p EXCEPT !.active = profileName], "guard", "none")
     ELSE Go(f, [p EXCEPT !.active = readState(f, now).activeProfile], "delete_rm")

\* Mutant: only the settings file is removed, the directory stays.
deleteRm_keepsDirectory(f, p) ==
  Ret([f EXCEPT !.profiles[p.name].settings = NoFile], p, "ok", "none")

deleteRm(f, p) == Ret(rmProfile(f, p.name), p, "ok", "none")

(***************************************************************************)
(* profiles.ts: renameProfile (163-199, 517-553)                           *)
(***************************************************************************)
\* Mutant: the test for oldName = newName is missing.
renameBegin_noSameNameTest(f, oldName, newName) ==
  LET p == [Idle EXCEPT !.op = "rename", !.name = oldName, !.newName = newName,
                        !.pre = f, !.activate = newName]
      oldValidation == validateProfileName(oldName)
      newValidation == validateProfileName(newName)
  IN IF ~oldValidation.valid THEN Ret(f, p, "invalid_old", oldValidation.error)
     ELSE IF ~newValidation.valid THEN Ret(f, p, "invalid_new", newValidation.error)
     ELSE IF ~profileExists(f, oldName) THEN Ret(f, p, "not_found", "none")
     ELSE IF profileExists(f, newName) THEN Ret(f, p, "exists", "none")
     ELSE Go(f, p, "rename_dir")

renameBegin(f, oldName, newName) ==
  LET p == [Idle EXCEPT !.op = "rename", !.name = oldName, !.newName = newName,
                        !.pre = f, !.activate = newName]
      oldValidation == validateProfileName(oldName)
      newValidation == validateProfileName(newName)
  IN IF ~oldValidation.valid THEN Ret(f, p, "invalid_old", oldValidation.error)
     ELSE IF ~newValidation.valid THEN Ret(f, p, "invalid_new", newValidation.error)
     ELSE IF ~profileExists(f, oldName) THEN Ret(f, p, "not_found", "none")
     ELSE IF oldName = newName THEN Ret(f, p, "ok", "none")
     ELSE IF profileExists(f, newName) THEN Ret(f, p, "exists", "none")
     ELSE Go(f, p, "rename_dir")

\* Mutant: the state record is not updated when the active profile is renamed.
renameDir_noRepoint(f, p, now) ==
  LET g == renameProfileDir(f, p.name, p.newName)
  IN IF readStateThrows(g) THEN Ret(g, p, "parse_state", "none")
     ELSE Ret(g, [p EXCEPT !.active = readState(g, now).activeProfile], "ok", "none")

renameDir(f, p, now) ==
  LET g == renameProfileDir(f, p.name, p.newName)
  IN IF readStateThrows(g) THEN Ret(g, p, "parse_state", "none")
     ELSE IF p.name = readState(g, now).activeProfile
       THEN StartUpdate(g, [p EXCEPT !.active = p.name])
     ELSE Ret(g, [p EXCEPT !.active = readState(g, now).activeProfile], "ok", "none")

(***************************************************************************)
(* profiles.ts: listProfiles (18-42, 303-327): readState, then mkdir of    *)
(* the store root and readdir.                                             *)
(***************************************************************************)
\* Mutant: an unparseable state file is read as the default record.
listBegin_defaultsOnCorrupt(f, now) ==
  LET p == [Idle EXCEPT !.op = "list", !.pre = f]
      state == IF readStateThrows(f) THEN DEFAULT_STATE(now) ELSE readState(f, now)
  IN Go(f, [p EXCEPT !.active = state.activeProfile], "list_mkdir")

listBegin(f, now) ==
  LET p == [Idle EXCEPT !.op = "list", !.pre = f]
  IN IF readStateThrows(f) THEN Ret(f, p, "parse_state", "none")
     ELSE Go(f, [p EXCEPT !.active = readState(f, now).activeProfile], "list_mkdir")

\* readdir(PROFILES_DIR) filtered to directories, each marked against the
\* activeProfile read.
listEntries(f, activeProfile) ==
  { [name |-> n, isActive |-> n = activeProfile] :
      n \in {m \in DOMAIN f.profiles : f.profiles[m].dir} }

\* Mutant: the entries are compared by name alone.
listCompare_byNameOnly(a, b) == localeCompare(a.name, b.name)

\* The comparator of profiles.sort: the active entry first, then localeCompare.
listCompare(a, b) ==
  IF a.isActive THEN -1
  ELSE IF b.isActive THEN 1
  ELSE localeCompare(a.name, b.name)

\* profiles.sort(...): the arrangement of the entries the comparator orders.
RECURSIVE sort(_)
sort(entries) ==
  IF entries = {} THEN <<>>
  ELSE LET first == CHOOSE x \in entries :
                      \A y \in entries \ {x} : listCompare(x, y) < 0
       IN <<first>> \o sort(entries \ {first})

listMkdir(f, p) ==
  Ret(mkdirRoot(f), [p EXCEPT !.result = sort(listEntries(f, p.active))],
      "ok", "none")

(***************************************************************************)
(* One step of the running call.                                           *)
(***************************************************************************)
StepOf(f, p, r, now) ==
  CASE p.pc \in MirrorPcs -> mirrorSettings(f, p, r, now)
    [] p.pc \in {"replace_tmp", "replace_rename"} -> replaceLive(f, p)
    [] p.pc \in {"state_tmp", "state_write"} -> updateState(f, p, now)
    [] p.pc = "create_mkdir" -> createMkdir(f, p, now)
    [] p.pc = "create_tmp" -> Go(writeProfileTmp(f, p.name, p.settings), p, "create_rename")
    [] p.pc = "create_rename" -> createAfterRename(renameProfileTmp(f, p.name), p, r)
    [] p.pc = "delete_rm" -> deleteRm(f, p)
    [] p.pc = "rename_dir" -> renameDir(f, p, now)
    [] p.pc = "list_mkdir" -> listMkdir(f, p)

\* A call run from a step's result to its return, with no termination.
RECURSIVE RunOn(_, _, _)
RunOn(res, r, now) ==
  IF res.outcome # "run" THEN res ELSE RunOn(StepOf(res.fs, res.proc, r, now), r, now)

\* A writeFile terminated midway leaves a prefix of the payload in its target.
TornPcs == {"mirror_tmp", "create_tmp", "replace_tmp", "state_tmp", "state_write",
            "mirror_state_tmp", "mirror_state"}

TornWrite(f, p) ==
  CASE p.pc = "mirror_tmp" -> writeProfileTmp(f, p.active, Partial)
    [] p.pc = "create_tmp" -> writeProfileTmp(f, p.name, Partial)
    [] p.pc = "replace_tmp" -> writeLiveTmp(f, Partial)
    [] p.pc \in {"state_tmp", "mirror_state_tmp"} -> writeStateTmp(f, Partial)
    [] p.pc \in {"state_write", "mirror_state"} -> writeStateFile(f, Partial)

(***************************************************************************)
(* History: the last event (a call that returned or was terminated, or an  *)
(* edit of the live document from outside the tool) with the filesystem it *)
(* started on, and a summary of the event before it.  While a call runs,   *)
(* the last event is that summary and hist.last is empty.                  *)
(***************************************************************************)
Event(p, outcome, reason) ==
  [op |-> p.op, name |-> p.name, newName |-> p.newName, template |-> p.template,
   apiKey |-> p.apiKey, active |-> p.active, outcome |-> outcome, reason |-> reason,
   at |-> p.pc, result |-> p.result, pre |-> p.pre]

NoEvent == Event(Idle, "none", "none")

\* What is kept of the event before the last: a call that returned an error
\* before its first write is kept as "failed" only.
Summary(e) ==
  IF e.at = "idle" /\ e.outcome \notin {"ok", "none"}
    THEN [op |-> "failed", name |-> <<>>, template |-> "", outcome |-> "error",
          at |-> "idle", live |-> NoFile]
    ELSE [op |-> e.op, name |-> e.name, template |-> e.template, outcome |-> e.outcome,
          at |-> e.at, live |-> e.pre.live]

\* The effect of a step's result on the variables.  A call that goes on past
\* its first write leaves the last event to the summary; its return, or its
\* termination, is the new last event.
Apply(res) ==
  LET prev == IF proc.pc = "idle" THEN Summary(hist.last) ELSE hist.prev
  IN /\ fs' = res.fs
     /\ IF res.outcome = "run"
          THEN /\ proc' = res.proc
               /\ hist' = [last |-> NoEvent, prev |-> prev]
          ELSE /\ proc' = Idle
               /\ hist' = [last |-> Event(res.proc, res.outcome, res.reason),
                           prev |-> prev]

(***************************************************************************)
(* Actions.                                                                *)
(***************************************************************************)
\* The store a first createProfile(NameW) leaves, run by the code as modelled.
Installed(f, r) == RunOn(createBegin(f, NameW, "", <<>>, r), r, 0).fs

Init ==
  /\ rev \in {1, 2}
  /\ \E b \in BaseBlobs \cup {NoFile}, c \in BaseBlobs :
       LET f == [EmptyFs EXCEPT !.live = b]
       IN fs \in {f, [Installed(f, rev) EXCEPT !.live = c]}
  /\ proc = Idle
  /\ hist = [last |-> NoEvent, prev |-> Summary(NoEvent)]
  /\ events = 0

CanCall == proc.pc = "idle" /\ events < MaxEvents

CallSwitch ==
  /\ CanCall
  /\ \E n \in NameInputs : Apply(switchBegin(fs, n, events + 1))
  /\ events' = events + 1
  /\ UNCHANGED rev

\* Lines 114-139 take no options.
CallCreate ==
  /\ CanCall
  /\ \E n \in NameInputs, o \in CreateOptions :
       /\ rev = 1 => (o.template = "" /\ o.apiKey = <<>>)
       /\ Apply(createBegin(fs, n, o.template, o.apiKey, rev))
  /\ events' = events + 1
  /\ UNCHANGED rev

CallDelete ==
  /\ CanCall
  /\ \E n \in NameInputs : Apply(deleteBegin(fs, n, events + 1))
  /\ events' = events + 1
  /\ UNCHANGED rev

CallRename ==
  /\ CanCall
  /\ \E n \in NameInputs, m \in NameInputs : Apply(renameBegin(fs, n, m))
  /\ events' = events + 1
  /\ UNCHANGED rev

CallList ==
  /\ CanCall
  /\ Apply(listBegin(fs, events + 1))
  /\ events' = events + 1
  /\ UNCHANGED rev

Step ==
  /\ proc.pc # "idle"
  /\ Apply(StepOf(fs, proc, rev, events))
  /\ UNCHANGED <<rev, events>>

\* The process is terminated between two writes.
Kill ==
  /\ proc.pc # "idle"
  /\ events < MaxEvents
  /\ Apply(Ret(fs, proc, "killed", "none"))
  /\ events' = events + 1
  /\ UNCHANGED rev

\* The process is terminated in the middle of a writeFile.
KillInWrite ==
  /\ proc.pc \in TornPcs
  /\ events < MaxEvents
  /\ Apply(Ret(TornWrite(fs, proc), proc, "killed", "torn"))
  /\ events' = events + 1
  /\ UNCHANGED rev

\* The live document is edited in place while no call runs.
EditLive ==
  /\ proc.pc = "idle"
  /\ events < MaxEvents
  /\ \E b \in BaseBlobs :
       /\ b # fs.live
       /\ fs' = [fs EXCEPT !.live = b]
       /\ hist' = [last |-> Event([Idle EXCEPT !.op = "edit", !.pre = fs], "ok", "none"),
                   prev |-> Summary(hist.last)]
  /\ events' = events + 1
  /\ UNCHANGED <<rev, proc>>

Next ==
  \/ CallSwitch
  \/ CallCreate
  \/ CallDelete
  \/ CallRename
  \/ CallList
  \/ Step
  \/ Kill
  \/ KillInWrite
  \/ EditLive

Spec == Init /\ [][Next]_vars

(***************************************************************************)
(* Claims.                                                                 *)
(***************************************************************************)
\* No call runs: hist.last is the last event and fs the state it left.
Done == proc.pc = "idle"

Last == hist.last

\* The activeProfile readState reports on filesystem f (f.state is readable).
ActiveOf(f) == readState(f, 0).activeProfile

Readable(f) == ~readStateThrows(f)

Returned(op, outcome) == Done /\ Last.op = op /\ Last.outcome = outcome

\* C1: a switchProfile(target) that completed, with target existing and other
\* than the active profile A, left A's slot holding the live document's bytes
\* from before the call (the slot exists now), the live document holding the
\* target's stored bytes from before the call, and activeProfile = target.
C1_SwitchMirrorsReplacesCommits ==
  Returned("switch", "ok") =>
    /\ Last.name # Last.active
    /\ Last.active = ActiveOf(Last.pre)
    /\ fs.profiles[Last.active].dir
    /\ fs.profiles[Last.active].settings = Last.pre.live
    /\ fs.live = Last.pre.profiles[Last.name].settings
    /\ fs.state.kind = "state"
    /\ fs.state.activeProfile = Last.name

\* C1's case: the switch replaced a live document that differed from the
\* target's content and created the slot of the profile it left.
C1_Witness ==
  /\ Returned("switch", "ok")
  /\ Last.pre.live # Last.pre.profiles[Last.name].settings
  /\ ~Last.pre.profiles[Last.active].dir
  /\ fs.profiles[Last.active].settings = Last.pre.live

\* A point of a switchProfile: the call is running at pc, or was terminated
\* at pc; pre is the filesystem it started on.
SwitchPoints ==
  (IF proc.op = "switch"
     THEN {[at |-> proc.pc, pre |-> proc.pre, name |-> proc.name, active |-> proc.active]}
     ELSE {})
  \cup
  (IF Returned("switch", "killed")
     THEN {[at |-> Last.at, pre |-> Last.pre, name |-> Last.name, active |-> Last.active]}
     ELSE {})

\* The pcs of a switchProfile whose live document is not replaced yet.
BeforeReplace == MirrorPcs \cup {"replace_tmp", "replace_rename"}

\* C2: at every point of a switchProfile, terminated or not, the writes are
\* in the order mirror, replace, state record: while the mirror runs the live
\* document is the one the call started on; once it is over the active
\* profile's slot holds it; the state file is the one the call started on
\* until the live document has been replaced; and a state record the call wrote
\* names a profile whose stored content is the live document.
C2_MirrorReplaceCommitOrder ==
  \A x \in SwitchPoints :
    /\ x.at \in MirrorPcs => fs.live = x.pre.live
    /\ x.at \notin MirrorPcs => fs.profiles[x.active].settings = x.pre.live
    /\ x.at \in BeforeReplace => fs.state = x.pre.state
    /\ (fs.state.kind = "state" /\ fs.state # x.pre.state) =>
         fs.live = x.pre.profiles[fs.state.activeProfile].settings

\* The calls of the core that write: switch, create, delete, rename.
CoreOps == {"switch", "create", "delete", "rename"}

\* C3: a completed operation that changed activeProfile from A to another
\* name, other than by renaming A, left A's slot holding the live document's
\* bytes from immediately before the operation.
C3_ActiveChangeKeepsEdits ==
  ( /\ Done
    /\ Last.op \in CoreOps
    /\ Last.outcome = "ok"
    /\ Readable(fs)
    /\ Readable(Last.pre)
    /\ ActiveOf(fs) # ActiveOf(Last.pre)
    /\ ~(Last.op = "rename" /\ Last.name = ActiveOf(Last.pre)) )
  => /\ fs.profiles[ActiveOf(Last.pre)].dir
     /\ fs.profiles[ActiveOf(Last.pre)].settings = Last.pre.live

\* The event before the last was a switchProfile(name) terminated at one of pcs.
PrevSwitchKilledAt(name, pcs) ==
  /\ hist.prev.op = "switch"
  /\ hist.prev.outcome = "killed"
  /\ hist.prev.name = name
  /\ hist.prev.at \in pcs

\* C4: a switchProfile(target) was terminated after the live document was
\* replaced and before the state file was written, and the same call was then
\* repeated to completion: the live document is the target's content,
\* activeProfile is target, and the profile that was active still holds what
\* was mirrored into it before the termination (the live document the first
\* call started on).
C4_RepeatAfterReplaceIsHarmless ==
  ( /\ Returned("switch", "ok")
    /\ PrevSwitchKilledAt(Last.name, {"state_tmp", "state_write"}) )
  => /\ fs.live = fs.profiles[Last.name].settings
     /\ ActiveOf(fs) = Last.name
     /\ fs.profiles[Last.active].settings = hist.prev.live

\* What two runs of a call leave: the live document, activeProfile and the
\* profiles' stored contents.
SameFinal(a, b) ==
  /\ a.outcome = b.outcome
  /\ a.fs.live = b.fs.live
  /\ Readable(a.fs) /\ Readable(b.fs)
  /\ ActiveOf(a.fs) = ActiveOf(b.fs)
  /\ \A n \in Dirs :
       /\ a.fs.profiles[n].dir = b.fs.profiles[n].dir
       /\ a.fs.profiles[n].settings = b.fs.profiles[n].settings

\* switchProfile(name) run to its return on filesystem f.
SwitchRun(f, name) == RunOn(switchBegin(f, name, events + 1), rev, events + 1)

\* C5, the state a termination after the mirror leaves: the live document
\* equals the stored content of the still-active profile and the state file is
\* the one the call started on.
C5_AfterMirror ==
  (Returned("switch", "killed") /\ Last.at \in {"replace_tmp", "replace_rename"})
  => /\ fs.live = fs.profiles[Last.active].settings
     /\ fs.state = Last.pre.state

\* C5, the repeated call: from that state switchProfile(target) run to
\* completion ends as an uninterrupted switchProfile(target) would have.
C5_RerunSameFinal ==
  (Returned("switch", "killed") /\ Last.at \in {"replace_tmp", "replace_rename"})
  => SameFinal(SwitchRun(fs, Last.name), SwitchRun(Last.pre, Last.name))

\* C5: a switchProfile terminated after the mirror and before the live
\* document is replaced leaves the live document equal to the active profile's
\* stored content and the state record unchanged, and repeating it ends in the
\* final state of an uninterrupted switch.
C5_CrashAfterMirrorIsRerunnable == C5_AfterMirror /\ C5_RerunSameFinal

\* C6: switchProfile(X) with X the active profile, X existing, performs the
\* mirror (X's slot holds the live document's bytes), stops with "already
\* active", and writes neither the live document nor the state file: both are
\* what they were before the call, on every such call.
C6_SwitchToActiveOnlyMirrors ==
  ( /\ Done
    /\ Last.op = "switch"
    /\ Last.outcome # "killed"
    /\ checkClaudeSettings(Last.pre)
    /\ profileExists(Last.pre, Last.name)
    /\ Readable(Last.pre)
    /\ ActiveOf(Last.pre) = Last.name )
  => /\ Last.outcome = "already_active"
     /\ fs.profiles[Last.name].settings = Last.pre.live
     /\ fs.live = Last.pre.live
     /\ fs.state = Last.pre.state

\* A deleteProfile(name) that returned, name being the activeProfile of the
\* state record it started on.
DeletedActive ==
  /\ Done
  /\ Last.op = "delete"
  /\ Last.outcome # "killed"
  /\ Readable(Last.pre)
  /\ Last.name = ActiveOf(Last.pre)

\* C7 as claimed: deleteProfile(active) always fails with the guard error and
\* removes no storage, also when the active profile has no directory.
C7_DeleteActiveAlwaysGuardError ==
  DeletedActive => (Last.outcome = "guard" /\ fs = Last.pre)

\* C7 as amended: deleteProfile(active) always fails and changes nothing on
\* disk; the error is the guard error when the active profile has a directory
\* and "does not exist" when it has none.
C7_DeleteActiveFails ==
  DeletedActive =>
    /\ Last.outcome = (IF Last.pre.profiles[Last.name].dir THEN "guard" ELSE "not_found")
    /\ fs = Last.pre

\* C7's case: the guard refused to delete an active profile that has storage.
C7_Witness ==
  /\ DeletedActive
  /\ Last.outcome = "guard"
  /\ fs.profiles[Last.name].dir
  /\ fs.profiles[Last.name].settings # NoFile

\* A createProfile(name) with no template that succeeded.
BareCreated == Returned("create", "ok") /\ Last.template = ""

\* A createProfile(name, {template}) that succeeded.
TemplateCreated == Returned("create", "ok") /\ Last.template # ""

\* C8: a bare createProfile(name) that succeeded wrote the live document's
\* bytes into the new slot and left the state file (or its absence), and so
\* the active profile readState reports, as they were.
C8_BareCreateKeepsActive ==
  BareCreated =>
    /\ fs.profiles[Last.name].settings = Last.pre.live
    /\ fs.state = Last.pre.state
    /\ Readable(fs) => ActiveOf(fs) = ActiveOf(Last.pre)

\* The blob createProfile(name, {template}) derives from the live document.
Transformed(e) ==
  applyTemplateOverrides(e.pre.live, getTemplateConfig(e.template), trim(e.apiKey))

\* C9: a template createProfile that succeeded stored the transformed blob in
\* the new slot, wrote the same blob to the live document and set
\* activeProfile to the name; a create without a template neither wrote the
\* live document nor set activeProfile.
C9_TemplateCreateActivates ==
  /\ TemplateCreated =>
       /\ fs.profiles[Last.name].settings = Transformed(Last)
       /\ fs.live = Transformed(Last)
       /\ ActiveOf(fs) = Last.name
  /\ BareCreated =>
       /\ fs.live = Last.pre.live
       /\ fs.state = Last.pre.state

\* The event before the last was a bare createProfile(name) that succeeded.
PrevBareCreated(name) ==
  /\ hist.prev.op = "create"
  /\ hist.prev.outcome = "ok"
  /\ hist.prev.template = ""
  /\ hist.prev.name = name

\* C10: createProfile(P) on live document L, directly followed by
\* switchProfile(P), leaves the live document with the bytes L.
C10_CreateSwitchRoundTrip ==
  (Done /\ Last.op = "switch" /\ Last.outcome # "killed" /\ PrevBareCreated(Last.name))
  => fs.live = hist.prev.live

\* C10's case: the switch after the create replaced the live document.
C10_Witness ==
  /\ Returned("switch", "ok")
  /\ PrevBareCreated(Last.name)
  /\ fs.live = hist.prev.live
  /\ fs.live = fs.profiles[Last.name].settings

\* A renameProfile(old, new), old # new, that succeeded.
Renamed == Returned("rename", "ok") /\ Last.name # Last.newName

\* C11: a renameProfile(old, new) that completed, old # new, left no directory
\* old, a directory new holding exactly what old held, and the state record
\* naming new if old was the active profile, the state file untouched if not.
C11_RenameMovesAndRepoints ==
  Renamed =>
    /\ Last.pre.profiles[Last.name].dir
    /\ ~Last.pre.profiles[Last.newName].dir
    /\ ~fs.profiles[Last.name].dir
    /\ fs.profiles[Last.name].settings = NoFile
    /\ fs.profiles[Last.newName] = Last.pre.profiles[Last.name]
    /\ Readable(Last.pre)
    /\ IF ActiveOf(Last.pre) = Last.name
         THEN fs.state.kind = "state" /\ fs.state.activeProfile = Last.newName
         ELSE fs.state = Last.pre.state

\* C11's case: the active profile, holding settings, was renamed.
C11_Witness ==
  /\ Renamed
  /\ ActiveOf(Last.pre) = Last.name
  /\ Last.pre.profiles[Last.name].settings \in BaseBlobs
  /\ fs.profiles[Last.newName].settings = Last.pre.profiles[Last.name].settings
  /\ fs.state.activeProfile = Last.newName

\* C11's other case: a profile that is not the active one was renamed.
C11_WitnessNotActive ==
  /\ Renamed
  /\ ActiveOf(Last.pre) # Last.name
  /\ fs.state = Last.pre.state

\* A point of a renameProfile, running or ended, that started with the active
\* profile's directory in place.
RenamePoints ==
  (IF proc.op = "rename" THEN {proc.pre} ELSE {})
  \cup
  (IF Done /\ Last.op = "rename" THEN {Last.pre} ELSE {})

\* C12: if the active profile has a directory when renameProfile starts, then
\* at every point of the call and after it, terminated or failed or not, the
\* state record's activeProfile names an existing directory.
C12_ActivePointerNeverDangles ==
  \A pre \in RenamePoints :
    (Readable(pre) /\ pre.profiles[ActiveOf(pre)].dir)
      => (Readable(fs) /\ fs.profiles[ActiveOf(fs)].dir)

\* C13: renameProfile(X, X), X existing, succeeds and changes no file: no
\* directory, stored content, live document, temporary file or state file.
C13_RenameToSelfIsNoOp ==
  ( /\ Done
    /\ Last.op = "rename"
    /\ Last.outcome # "killed"
    /\ Last.name = Last.newName
    /\ profileExists(Last.pre, Last.name) )
  => (Last.outcome = "ok" /\ fs = Last.pre)

\* C13's case: an existing profile holding settings was renamed to itself.
C13_Witness ==
  /\ Returned("rename", "ok")
  /\ Last.name = Last.newName
  /\ Last.pre.profiles[Last.name].settings \in BaseBlobs
  /\ fs = Last.pre

\* The reason switchProfile(name) is rejected for on filesystem f before it
\* reads the state record, "none" if it is not.
SwitchRejection(f, name) ==
  IF ~validateProfileName(name).valid THEN "invalid"
  ELSE IF ~checkClaudeSettings(f) THEN "no_live"
  ELSE IF ~profileExists(f, name) THEN "not_found"
  ELSE "none"

\* C14: a switchProfile(target) with an invalid name, with no live document or
\* with a target that has no storage fails with that reason and changes no
\* file: live document, state file and every profile's storage are the same.
C14_RejectedSwitchMutatesNothing ==
  ( /\ Done
    /\ Last.op = "switch"
    /\ Last.outcome # "killed"
    /\ SwitchRejection(Last.pre, Last.name) # "none" )
  => /\ Last.outcome = SwitchRejection(Last.pre, Last.name)
     /\ fs = Last.pre

\* C14's case: a switch to a valid name without storage was rejected while the
\* live document exists and the active profile has no directory.
C14_Witness ==
  /\ Returned("switch", "not_found")
  /\ checkClaudeSettings(Last.pre)
  /\ Readable(Last.pre)
  /\ ~fs.profiles[ActiveOf(Last.pre)].dir
  /\ fs = Last.pre

\* Filesystems a and b have the same profile directories with the same stored
\* contents, the same live document and the same state file.
SameStore(a, b) ==
  /\ a.live = b.live
  /\ a.state = b.state
  /\ \A n \in Dirs :
       /\ a.profiles[n].dir = b.profiles[n].dir
       /\ a.profiles[n].settings = b.profiles[n].settings

\* A call of op that returned an error.
Failed(op) == Done /\ Last.op = op /\ Last.outcome \notin {"ok", "killed"}

\* C15: a createProfile, deleteProfile or renameProfile that returned an error
\* has changed nothing: the profile directories, their stored contents, the
\* live document and the state file are what they were before the call.
C15_FailedCallMutatesNothing ==
  \A op \in {"create", "delete", "rename"} : Failed(op) => SameStore(fs, Last.pre)

\* C15 for the errors raised before the first write only.
C15_EarlyErrorsMutateNothing ==
  \A op \in {"create", "delete", "rename"} :
    (Failed(op) /\ Last.at = "idle") => fs = Last.pre

\* The filesystem the running call, or else the last event, started on.
StartedOn == IF proc.pc # "idle" THEN proc.pre ELSE Last.pre

\* C16: the state file is only replaced as a whole.  At every point of a call,
\* terminated anywhere or not, it is what it was when the call started (absent
\* if it was absent) or a complete record; it is never a partly written file.
C16_StateFileReplacedAtomically ==
  /\ fs.state # Partial
  /\ fs.state = StartedOn.state \/ fs.state.kind = "state"

\* C17: the live document and every profile's settings file are replaced only
\* by a rename of a fully written temporary file.  At every point of a
\* switchProfile or createProfile, terminated anywhere or not, each of them
\* holds its content from before the call or the complete new content (the
\* live document's bytes, the target's stored bytes, or the template's
\* transform of the live document), never a partly written one.
C17_SettingsReplacedAtomically ==
  ( \/ proc.op \in {"switch", "create"}
    \/ (Done /\ Last.op \in {"switch", "create"}) )
  => LET pre == StartedOn
         e == IF proc.pc # "idle" THEN proc ELSE Last
         transformed == IF e.op = "create" /\ e.template # "" /\ CanParse(pre.live)
                          THEN {Transformed(e)} ELSE {}
         installed == IF e.op = "switch" /\ e.name \in Dirs
                        THEN {pre.profiles[e.name].settings} \ {NoFile} ELSE {}
     IN /\ fs.live # Partial
        /\ fs.live \in {pre.live} \cup installed \cup transformed
        /\ \A n \in Dirs :
             /\ fs.profiles[n].settings # Partial
             /\ fs.profiles[n].settings \in
                  {pre.profiles[n].settings, pre.live} \cup transformed

\* C17's case: a switchProfile terminated in the middle of writing the live
\* document's temporary file; the live document is the one from before.
C17_Witness ==
  /\ Returned("switch", "killed")
  /\ Last.reason = "torn"
  /\ Last.at = "replace_tmp"
  /\ fs.liveTmp = Partial
  /\ fs.live = Last.pre.live
  /\ fs.live # Last.pre.profiles[Last.name].settings

\* On filesystem f the active profile has no stored settings, or its stored
\* settings are the live document.
ActiveMirrorsLive(f) ==
  /\ Readable(f)
  /\ ActiveOf(f) \in Dirs
  /\ \/ f.profiles[ActiveOf(f)].settings = NoFile
     \/ f.profiles[ActiveOf(f)].settings = f.live

\* Executions that start with the active profile mirrored in the live
\* document (or without storage) and consist of calls that run to their
\* return: no termination, no edit of the live document from outside.
InitMirrored == Init /\ ActiveMirrorsLive(fs)

NextCompleted ==
  \/ CallSwitch
  \/ CallCreate
  \/ CallDelete
  \/ CallRename
  \/ CallList
  \/ Step

SpecCompleted == InitMirrored /\ [][NextCompleted]_vars

Current == IF proc.pc # "idle" THEN proc ELSE Last

\* C19, reading: a call that read the state record while there was no state
\* file got activeProfile = "default".
C19_ReadsDefault ==
  (Current.pre.state = NoFile /\ Current.active # <<>>)
    => Current.active = DEFAULT_NAME

\* C19, writing: a step that brings the state file into existence is the
\* writeFile(STATE_FILE) of updateState; readState creates nothing.
C19_OnlyUpdateStateCreates ==
  (fs.state = NoFile /\ fs'.state # NoFile) => proc.pc \in {"state_write", "mirror_state"}

\* C19: with no state file readState returns a record whose activeProfile is
\* "default" and writes nothing; the state file comes into existence only
\* through updateState.
C19_LazyDefaultState == [](C19_ReadsDefault) /\ [][C19_OnlyUpdateStateCreates]_vars

\* C19's case: calls read the absent state file, got "default", and the file
\* is still absent although profiles have been stored.
C19_Witness ==
  /\ Returned("list", "ok")
  /\ Last.active = DEFAULT_NAME
  /\ Last.pre.state = NoFile
  /\ fs.state = NoFile
  /\ hist.prev.op \in {"delete", "switch"}
  /\ \E n \in Dirs : fs.profiles[n].dir

\* The rejections a call raises before it consults the state record.
EarlyRejections ==
  {"invalid", "invalid_old", "invalid_new", "no_live", "not_found", "exists",
   "unknown_template", "key_required", "key_without_template"}

\* The event is a call of an operation that consults the state record:
\* switch, delete, list, create with a template, rename to another name.
ConsultsState(e) ==
  \/ e.op \in {"switch", "delete", "list"}
  \/ e.op = "create" /\ e.template # ""
  \/ e.op = "rename" /\ e.name # e.newName

\* C20: with an unparseable state file, a call that consults the state record
\* fails, with the parse error unless it was rejected before it read the file,
\* and the state file is left as it was, at every point of the call.
C20_CorruptStateIsFatal ==
  (readStateThrows(Current.pre) /\ ConsultsState(Current))
    => /\ fs.state = Current.pre.state
       /\ (Done /\ Last.outcome # "killed")
            => Last.outcome \in EarlyRejections \cup {"parse_state"}

\* C20's case: a template createProfile, past its option checks, failed on the
\* unparseable state file.
C20_Witness ==
  /\ Returned("create", "parse_state")
  /\ Last.template # ""
  /\ Last.pre.state = Partial
  /\ fs.state = Partial

OptionsRejection(e) ==
  IF e.template # "" /\ getTemplateConfig(e.template) = NoTemplate
    THEN "unknown_template"
  ELSE IF getTemplateConfig(e.template).requiresApiKey /\ trim(e.apiKey) = <<>>
    THEN "key_required"
  ELSE IF e.template = "" /\ e.apiKey # <<>> THEN "key_without_template"
  ELSE "none"

\* C22: a createProfile with an apiKey and no template, with an unknown
\* template, or with a template that requires an apiKey and none given, is
\* rejected with an error, that of the options when the name is valid and free
\* and the live document exists, and creates no directory, writes no file and
\* leaves the state file as it was.
C22_BadOptionsRejected ==
  ( /\ Done
    /\ Last.op = "create"
    /\ Last.outcome # "killed"
    /\ OptionsRejection(Last) # "none" )
  => /\ Last.outcome \in EarlyRejections
     /\ fs = Last.pre
     /\ ( /\ validateProfileName(Last.name).valid
          /\ checkClaudeSettings(Last.pre)
          /\ ~profileExists(Last.pre, Last.name) )
        => Last.outcome = OptionsRejection(Last)

\* C22's case: an apiKey without a template was rejected for a free, valid
\* name with the live document present.
C22_Witness ==
  /\ Returned("create", "key_without_template")
  /\ Last.apiKey # <<>>
  /\ checkClaudeSettings(Last.pre)
  /\ ~fs.profiles[Last.name].dir
  /\ fs = Last.pre

(***************************************************************************)
(* listProfiles on stores of several profiles.                             *)
(***************************************************************************)
\* The names of the profile directories: they differ by case and by length.
ListDirs == { <<"a">>, <<"B">>, <<"b">>, DEFAULT_NAME }

\* A store with the directories D, created by earlier createProfile calls, and
\* the state file st.
StoreOf(D, st, root) ==
  [EmptyFs EXCEPT !.live = BlobA, !.state = st, !.root = root,
                  !.profiles = [n \in ListDirs |->
                                  IF n \in D THEN [EmptySlot EXCEPT !.dir = TRUE,
                                                                    !.settings = BlobA]
                                             ELSE EmptySlot]]

InitList ==
  /\ rev \in {1, 2}
  /\ \E D \in SUBSET ListDirs, root \in BOOLEAN,
        st \in {NoFile} \cup {StateRecord(n, 0) : n \in ListDirs} :
       /\ D # {} => root
       /\ fs = StoreOf(D, st, root)
  /\ proc = Idle
  /\ hist = [last |-> NoEvent, prev |-> Summary(NoEvent)]
  /\ events = 0

NextList ==
  \/ CallList
  \/ Step

SpecList == InitList /\ [][NextList]_vars

\* The profile directories of filesystem f.
DirsOf(f) == {n \in DOMAIN f.profiles : f.profiles[n].dir}

\* The list a listProfiles that returned has returned.
Listed == Returned("list", "ok")

\* What C23 says of the entries: one entry per profile directory (none, and
\* the store root created, when the root is absent), isActive exactly on the
\* entry named by the state record's activeProfile, which comes first.
ListEntriesRight ==
  LET r == Last.result
  IN /\ Len(r) = Cardinality(DirsOf(Last.pre))
     /\ {r[i].name : i \in 1..Len(r)} = DirsOf(Last.pre)
     /\ fs = mkdirRoot(Last.pre)
     /\ ~Last.pre.root => r = <<>>
     /\ \A i \in 1..Len(r) : r[i].isActive <=> (r[i].name = ActiveOf(Last.pre))
     /\ \A i \in 2..Len(r) : ~r[i].isActive

\* The code units of the safe characters, in ascending order.
CodeUnits ==
  <<"-", "0", "1", "2", "3", "4", "5", "6", "7", "8", "9",
    "A", "B", "C", "D", "E", "F", "G", "H", "I", "J", "K", "L", "M",
    "N", "O", "P", "Q", "R", "S", "T", "U", "V", "W", "X", "Y", "Z", "_",
    "a", "b", "c", "d", "e", "f", "g", "h", "i", "j", "k", "l", "m",
    "n", "o", "p", "q", "r", "s", "t", "u", "v", "w", "x", "y", "z">>

CodeUnit(c) == CHOOSE i \in 1..Len(CodeUnits) : CodeUnits[i] = c

\* a comes before b in lexical order: the order of the strings as sequences
\* of code units.
LexicallyBefore(a, b) ==
  CompareSeq([i \in 1..Len(a) |-> CodeUnit(a[i])],
             [i \in 1..Len(b) |-> CodeUnit(b[i])]) < 0

\* C23 as claimed: the entries are right and the entries that are not active
\* are in ascending lexical order of name.
C23_ListActiveFirstThenLexical ==
  Listed =>
    /\ ListEntriesRight
    /\ \A i, j \in 1..Len(Last.result) :
         (i < j /\ ~Last.result[i].isActive)
           => LexicallyBefore(Last.result[i].name, Last.result[j].name)

\* C23 as amended: the entries are right and the entries that are not active
\* are in ascending order of localeCompare, which puts names that differ by
\* their letters in alphabetical order regardless of case and a lower-case
\* letter before the same letter in upper case.
C23_ListActiveFirstThenCollated ==
  Listed =>
    /\ ListEntriesRight
    /\ \A i, j \in 1..Len(Last.result) :
         (i < j /\ ~Last.result[i].isActive)
           => localeCompare(Last.result[i].name, Last.result[j].name) < 0

\* C23's case: a list of four directories whose active profile is not the
\* first by name.
C23_Witness ==
  /\ Listed
  /\ Len(Last.result) = 4
  /\ Last.result[1].isActive
  /\ Last.result[1].name = <<"B">>
  /\ Last.result[2].name = <<"a">>

\* A deleteProfile(name) with a valid name that returned.
Deleted == Done /\ Last.op = "delete" /\ Last.outcome # "killed" /\ Last.name \in Dirs

\* C24: deleteProfile(name) for an existing profile that is not the active one
\* removes its directory and content and changes nothing else (the other
\* profiles, the live document and the state file are what they were);
\* deleteProfile for a name without storage fails with "does not exist".
C24_DeleteRemovesOnlyTarget ==
  Deleted =>
    IF ~profileExists(Last.pre, Last.name)
      THEN Last.outcome = "not_found" /\ fs = Last.pre
      ELSE (Readable(Last.pre) /\ ActiveOf(Last.pre) # Last.name)
             => /\ Last.outcome = "ok"
                /\ fs = [Last.pre EXCEPT !.profiles[Last.name] = EmptySlot]

\* C24's case: a profile holding settings was deleted while the active
\* profile, another one, has storage and the state file exists.
C24_Witness ==
  /\ Returned("delete", "ok")
  /\ Last.pre.profiles[Last.name].settings \in BaseBlobs
  /\ ~fs.profiles[Last.name].dir
  /\ fs.state.kind = "state"
  /\ fs.profiles[ActiveOf(fs)].settings \in BaseBlobs
  /\ fs.live = Last.pre.live

(***************************************************************************)
(* validateProfileName on the strings a user can type.                     *)
(***************************************************************************)
\* The length up to which every string over NameChars is tried.
MaxNameLen == 4

\* Letters of a reserved word in both cases, white space, the characters of
\* the traversal test, and safe characters that are not letters.
NameChars == {"h", "e", "l", "p", "E", " ", ".", "/", "\\", "-"}

\* Longer names: the other reserved word, in several cases and with additions.
LongNames ==
  { <<"v","e","r","s","i","o","n">>, <<"V","e","r","s","i","o","n">>,
    <<"V","E","R","S","I","O","N">>, <<"v","e","r","s","i","o","n","s">>,
    <<"v","e","r","s","i","o","n"," ">>, <<"\t","v","e","r","s","i","o","n">>,
    <<"v","e","r","s","i","o","n","/">>, <<"_","v","e","r","s","i","o","n">>,
    <<"w","o","r","k","_","2">>, <<"w","o","r","k",".","2">>,
    <<"h","e","l","p","\n">>, DEFAULT_NAME }

NameCandidates ==
  UNION {[1..n -> NameChars] : n \in 0..MaxNameLen} \cup LongNames

\* index.ts, getProfileValidationMessage: a typed name is validated; nothing
\* is read or written.  An execution validates one name.
getProfileValidationMessage ==
  /\ proc.pc = "idle"
  /\ hist.last = NoEvent
  /\ \E value \in NameCandidates :
       LET validation == validateProfileName(value)
       IN hist' = [last |-> Event([Idle EXCEPT !.op = "validate", !.name = value,
                                               !.pre = fs],
                                  IF validation.valid THEN "ok" ELSE "invalid",
                                  validation.error),
                   prev |-> hist.prev]
  /\ UNCHANGED <<rev, fs, proc, events>>

InitValidate ==
  /\ rev \in {1, 2}
  /\ fs = EmptyFs
  /\ proc = Idle
  /\ hist = [last |-> NoEvent, prev |-> Summary(NoEvent)]
  /\ events = 0

NextValidate == getProfileValidationMessage

SpecValidate == InitValidate /\ [][NextValidate]_vars

\* A name has been validated: Last.name is the name, Last.outcome the verdict
\* and Last.reason the reason of a rejection.
Validated == Last.op = "validate"

HasTraversal(name) ==
  includes(name, <<".", ".">>) \/ includes(name, <<"/">>) \/ includes(name, <<"\\">>)

\* C25: every string that contains "..", "/" or "\" is rejected, whatever else
\* it contains.
C25_TraversalAlwaysRejected ==
  (Validated /\ HasTraversal(Last.name)) => Last.outcome = "invalid"

\* C25's case: a string that is otherwise made of safe characters and holds a
\* separator was rejected.
C25_Witness ==
  /\ Validated
  /\ Last.name = <<"h", "/", "e">>
  /\ Last.outcome = "invalid"

\* The rules of the validator, each on its own, in the order of the checks.
RuleViolations(name) ==
  << trim(name) = <<>>,
     name # trim(name),
     toLowerCase(trim(name)) \in RESERVED_PROFILE_NAMES,
     HasTraversal(trim(name)),
     \E i \in 1..Len(trim(name)) : trim(name)[i] \notin SafeChar >>

RuleReasons == <<"empty", "spaces", "reserved", "traversal", "charset">>

\* C26: the reason reported is that of the first violated rule in the order
\* empty, white space, reserved word, traversal, character set; a name that
\* violates none is accepted.
C26_FirstViolationReported ==
  Validated =>
    LET v == RuleViolations(Last.name)
        violated == {i \in 1..5 : v[i]}
    IN IF violated = {}
         THEN Last.outcome = "ok"
         ELSE /\ Last.outcome = "invalid"
              /\ \E i \in violated :
                   /\ \A j \in violated : i <= j
                   /\ Last.reason = RuleReasons[i]

\* C26's case: a name that violates the traversal and the character rules
\* (and no earlier one) was rejected for the traversal.
C26_Witness ==
  /\ Validated
  /\ RuleViolations(Last.name) = <<FALSE, FALSE, FALSE, TRUE, TRUE>>
  /\ Last.reason = "traversal"

\* C27: a string is accepted if and only if it is not empty, consists of
\* characters of [A-Za-z0-9-_] only, and its lower-cased form is neither
\* "help" nor "version".
C27_AcceptedIffSafe ==
  Validated =>
    ( Last.outcome = "ok"
      <=> /\ Last.name # <<>>
          /\ \A i \in 1..Len(Last.name) : Last.name[i] \in SafeChar
          /\ toLowerCase(Last.name) \notin RESERVED_PROFILE_NAMES )

\* C27's case: a reserved word in mixed case, made of safe characters, was
\* rejected.
C27_Witness ==
  /\ Validated
  /\ Last.name = <<"h", "E", "l", "p">>
  /\ Last.outcome = "invalid"
  /\ Last.reason = "reserved"

(***************************************************************************)
(* paths.ts.  A path is the sequence of its segments below the file        *)
(* system's root, each segment a string; path.join (POSIX) concatenates    *)
(* its arguments with "/" and normalises the result: empty and "."         *)
(* segments are dropped and a ".." segment removes the segment before it.  *)
(***************************************************************************)
RECURSIVE segments(_, _)
segments(s, current) ==
  IF s = <<>> THEN <<current>>
  ELSE IF Head(s) = "/" THEN <<current>> \o segments(Tail(s), <<>>)
  ELSE segments(Tail(s), Append(current, Head(s)))

RECURSIVE normalize(_, _)
normalize(segs, done) ==
  IF segs = <<>> THEN done
  ELSE IF Head(segs) \in {<<>>, <<".">>} THEN normalize(Tail(segs), done)
  ELSE IF Head(segs) = <<".", ".">>
    THEN normalize(Tail(segs),
                   IF done = <<>> THEN done ELSE SubSeq(done, 1, Len(done) - 1))
  ELSE normalize(Tail(segs), Append(done, Head(segs)))

join(base, part) == normalize(base \o segments(part, <<>>), <<>>)

homedir == << <<"h","o","m","e">>, <<"u">> >>

CC_SWITCH_DIR == join(homedir, <<".","c","c","-","s","w","i","t","c","h">>)

PROFILES_DIR == join(CC_SWITCH_DIR, <<"p","r","o","f","i","l","e","s">>)

\* A file system that folds case gives the name's lower-cased spelling.
getProfileDir_foldsCase(profileName) == join(PROFILES_DIR, toLowerCase(profileName))

getProfileDir(profileName) == join(PROFILES_DIR, profileName)

getProfileSettings(profileName) ==
  join(getProfileDir(profileName),
       <<"s","e","t","t","i","n","g","s",".","j","s","o","n">>)

\* The last segment of a location and the location that holds it.
LastSegment(path) == path[Len(path)]

Parent(path) == SubSeq(path, 1, Len(path) - 1)

\* A location strictly below the store root.
InsideStore(path) ==
  /\ Len(path) > Len(PROFILES_DIR)
  /\ SubSeq(path, 1, Len(PROFILES_DIR)) = PROFILES_DIR

\* C28: the directory and the settings file of an accepted name are below the
\* store root, and the name is read back from either location: the directory
\* is the store root's child whose last segment is the name, and the settings
\* file is that directory's child.  Two accepted names with the same directory
\* or the same settings file are therefore the same name; in particular the
\* other spelling of the name's letters has another directory and another
\* settings file.
C28_PathsInjectiveInsideStore ==
  (Validated /\ Last.outcome = "ok") =>
    LET dir == getProfileDir(Last.name)
        settings == getProfileSettings(Last.name)
        other == toLowerCase(Last.name)
    IN /\ InsideStore(dir)
       /\ InsideStore(settings)
       /\ Parent(dir) = PROFILES_DIR
       /\ LastSegment(dir) = Last.name
       /\ Parent(settings) = dir
       /\ LastSegment(Parent(settings)) = Last.name
       /\ other # Last.name =>
            /\ getProfileDir(other) # dir
            /\ getProfileSettings(other) # settings

\* C28's case: an accepted name that differs from another accepted name only
\* in case has been mapped, to the store root's child of that very name.
C28_Witness ==
  /\ Validated
  /\ Last.outcome = "ok"
  /\ Last.name = <<"h", "E">>
  /\ validateProfileName(<<"h", "e">>).valid
  /\ getProfileDir(Last.name) = Append(PROFILES_DIR, Last.name)
  /\ getProfileDir(<<"h", "e">>) # getProfileDir(Last.name)

\* The step in which an updateState returns: its second write has been made
\* and nothing stopped it.  The call returns with it, or goes on after the
\* updateState of lines 70-71.
UpdateStateReturns ==
  \/ proc.pc = "state_write" /\ proc'.pc = "idle" /\ hist'.last.outcome = "ok"
  \/ proc.pc = "mirror_state" /\ hist'.last.outcome # "killed"

\* The activeProfile the running updateState was given.
Supplied == IF proc.pc = "mirror_state" THEN proc.active ELSE proc.activate

\* C29: the record updateState returns is the record readState gave it (the
\* default record when there is no state file) with activeProfile replaced by
\* the supplied name and lastSyncedAt by the time of the call, and a
\* readState on the filesystem it leaves returns that record.
C29_UpdateStateReturnsPersisted ==
  [][ UpdateStateReturns =>
        LET current == IF fs.state = NoFile THEN DEFAULT_STATE(events) ELSE fs.state
            returned == newState(fs, Supplied, events)
        IN /\ Readable(fs)
           /\ returned.activeProfile = Supplied
           /\ returned.lastSyncedAt = events
           /\ returned = [current EXCEPT !.activeProfile = Supplied,
                                         !.lastSyncedAt = events]
           /\ Readable(fs')
           /\ readState(fs', events') = returned ]_vars

\* C29's cases: an updateState that started on a state file naming another
\* profile at an earlier time has returned, and the state file holds the
\* supplied name and the time of the call.
C29_Witness ==
  /\ Returned("switch", "ok")
  /\ Last.pre.state # NoFile
  /\ Last.pre.state.activeProfile # Last.name
  /\ Last.pre.state.lastSyncedAt < events
  /\ fs.state = StateRecord(Last.name, events)

\* Where the current call is, or where the last one ended.
PcOf(c) == IF proc.pc # "idle" THEN c.pc ELSE c.at

\* A createProfile with a template whose mirrorSettings has returned: the
\* call is at one of the writes that follow it, or ended there.
PastTemplateMirror ==
  /\ rev = 2
  /\ Current.op = "create"
  /\ HasTemplate(Current)
  /\ PcOf(Current) \in {"create_tmp", "create_rename", "replace_tmp", "replace_rename",
                        "state_tmp", "state_write"}

\* The live document has been replaced by the call.
LiveOverwritten ==
  PastTemplateMirror /\ PcOf(Current) \in {"state_tmp", "state_write"}

\* C30: from the return of its mirrorSettings on, during and after the
\* replacement of the live document, a createProfile with a template has the
\* live document's bytes from before the call in the slot of the profile that
\* was active when it started.
C30_TemplateCreateKeepsLiveInActiveSlot ==
  PastTemplateMirror =>
    /\ Current.active \in Dirs
    /\ fs.profiles[Current.active].dir
    /\ fs.profiles[Current.active].settings = Current.pre.live

\* The same for a new profile other than the active one.
C30_KeptWhenNewProfileIsNotActive ==
  (PastTemplateMirror /\ Current.name # Current.active) =>
    /\ Current.active \in Dirs
    /\ fs.profiles[Current.active].dir
    /\ fs.profiles[Current.active].settings = Current.pre.live

\* The live document was replaced and its former bytes are in no profile.
C30_LiveContentLost ==
  /\ LiveOverwritten
  /\ Returned("create", "ok")
  /\ Last.name = Last.active
  /\ fs.live # Last.pre.live
  /\ \A d \in Dirs : fs.profiles[d].settings # Last.pre.live

\* No path ending in ".tmp" exists next to the state file, the live document
\* or a profile's settings file.
NoTemporaryFile(f) ==
  /\ f.liveTmp = NoFile
  /\ f.stateTmp = NoFile
  /\ \A d \in Dirs : f.profiles[d].tmp = NoFile

\* A core operation has run to its return, with a result or with an error.
Completed ==
  /\ Done
  /\ Last.op \in {"switch", "create", "delete", "rename", "list"}
  /\ Last.outcome # "killed"

\* C31: a core operation that started with no temporary file on disk and ran
\* to its return, with or without an error, leaves no temporary file on disk.
C31_NoTemporaryFileRemains ==
  (Completed /\ NoTemporaryFile(Last.pre)) => NoTemporaryFile(fs)

\* The same for the temporary files of the live document and of the
\* profiles' settings files, which are renamed over their targets.
C31_RenamedTemporariesAreGone ==
  (Completed /\ NoTemporaryFile(Last.pre)) =>
    NoTemporaryFile([fs EXCEPT !.stateTmp = NoFile])

\* A completed switchProfile has left the state file's temporary file behind,
\* holding the record that is in the state file.
C31_StateTmpLeftBehind ==
  /\ Returned("switch", "ok")
  /\ NoTemporaryFile(Last.pre)
  /\ fs.stateTmp # NoFile
  /\ fs.stateTmp = fs.state

\* The names of the profile directories in the store.
ProfileDirectories(f) == {n \in DOMAIN f.profiles : f.profiles[n].dir}

\* The validator accepts every profile directory's name and, where the state
\* file holds a record, the record's activeProfile.
NamesAccepted(f) ==
  /\ \A n \in ProfileDirectories(f) : validateProfileName(n).valid
  /\ f.state.kind = "state" => validateProfileName(f.state.activeProfile).valid

\* C32: the store starts with accepted names only (or empty, with no state
\* record), and in every state that the core operations lead to, during a
\* call as well as after it, every profile directory's name and the state
\* record's activeProfile are names the validator accepts.
C32_OnlyAcceptedNames == NamesAccepted(fs)

\* C32, step by step: no step of an operation makes a directory with, or
\* points the state record at, a name the validator rejects.
C32_StepsKeepNamesAccepted ==
  [][NamesAccepted(fs) => NamesAccepted(fs')]_vars

\* C32's case: after a call with a rejected name has failed, a renameProfile
\* of the active profile has returned; the new name has the directory and is
\* the state record's activeProfile.
C32_Witness ==
  /\ Returned("rename", "ok")
  /\ Last.name # Last.newName
  /\ hist.prev.op = "failed"
  /\ ProfileDirectories(fs) = {Last.newName}
  /\ fs.state.kind = "state"
  /\ fs.state.activeProfile = Last.newName
  /\ NamesAccepted(Last.pre)

====
